---- MODULE Spec2Model ----
(***************************************************************************)
(* egadsync: snapshot/diff engine (file_tracker.rs), its periodic sync      *)
(* loop (sync.rs) and the commands that drive them (lib.rs).                *)
(*                                                                          *)
(* tasks is the bag of the spawned tasks that have not returned: each has   *)
(* its place in the code (pc), the FileTracker it owns, the changes its    *)
(* last diff returned and the state of its handle on the state file (fd).  *)
(* The state file is one file shared by every task of the process.  The    *)
(* monitored tree is the environment: it changes through the Fs* actions.  *)
(* File handles follow POSIX rules: File::create truncates the file in     *)
(* place, and a handle whose file was removed keeps writing to the removed *)
(* file.                                                                   *)
(***************************************************************************)
EXTENDS Integers, Sequences, FiniteSets, Bags, TLC

VARIABLES fs, fsOps, disk, tasks, events, stopped, quiet

vars == <<fs, fsOps, disk, tasks, events, stopped, quiet>>

(***************************************************************************)
(* Bounds                                                                  *)
(***************************************************************************)
MaxTasks == 2

MaxFsOps == 1

MaxQuiet == 3

(***************************************************************************)
(* The monitored tree.  "/d" is a directory with two possible entries,     *)
(* "/f" is a regular file.                                                 *)
(***************************************************************************)
DirRoot == "/d"

FileRoot == "/f"

Children == {"/d/a", "/d/b"}

Targets == {DirRoot, FileRoot}

AllPaths == Targets \cup Children

Parent(p) == IF p \in Children THEN DirRoot ELSE ""

\* std::time::SystemTime, counted in nanoseconds relative to UNIX_EPOCH
\* (negative: before the epoch).
NanosPerSec == 1000000000

BeforeEpoch == -1

Times == {999999999, 1000000001}

Sizes == {0, 10}

\* FileMetadata { last_modified, size, is_dir }
FileMetadata(lm, sz, d) == [last_modified |-> lm, size |-> sz, is_dir |-> d]

\* The metadata a scan can meet.
AllMetas == {FileMetadata(lm, sz, d) : lm \in Times, sz \in Sizes, d \in BOOLEAN}

\* The metadata the tree's changes draw from: a file, the file touched, a
\* directory with the file's time and size.
Metas ==
    {FileMetadata(999999999, 10, FALSE), FileMetadata(1000000001, 10, FALSE),
     FileMetadata(999999999, 10, TRUE)}

Absent == [absent |-> TRUE]

EmptyState == [p \in {} |-> Absent]

\* FileTracker { root_target, files_state }
FileTracker(root, state) == [root_target |-> root, files_state |-> state]

NoTracker == FileTracker("", EmptyState)

(***************************************************************************)
(* Results                                                                 *)
(***************************************************************************)
Ok(v) == [ok |-> TRUE, val |-> v]

Err(e) == [ok |-> FALSE, err |-> e]

(***************************************************************************)
(* FileTracker::scan_dir                                                   *)
(***************************************************************************)
\* The entries WalkDir yields for target: target itself and its descendants.
WalkDir(f, target) == {p \in AllPaths : (p = target \/ Parent(p) = target) /\ f[p] # Absent}

\* A scan that does not look at what the target is.
ScanDirUnchecked(f, target) ==
    IF f[target] = Absent THEN Err("IoError")
    ELSE Ok([p \in WalkDir(f, target) |-> f[p]])

ScanDir(f, target) ==
    IF f[target] = Absent THEN Err("IoError")
    ELSE IF ~f[target].is_dir THEN Err("NotADirectory")
    ELSE Ok([p \in WalkDir(f, target) |-> f[p]])

\* Failures of the walk that do not depend on the modelled tree: an entry that
\* cannot be read (walkdir::Error), metadata that cannot be read (io::Error),
\* the blocking task not completing (JoinError).
ScanFaults == {"IoError", "WalkdirError", "JoinError"}

(***************************************************************************)
(* FileTracker::diff: the comparison of the stored and the new snapshot    *)
(***************************************************************************)
FileChange(k, p) == [kind |-> k, path |-> p]

\* The iteration orders a HashMap with key set S can have.
RECURSIVE Orders(_)
Orders(S) == IF S = {} THEN {<<>>} ELSE UNION {{<<x>> \o o : o \in Orders(S \ {x})} : x \in S}

\* A comparison that also looks at is_dir.
IsChangedOrKind(old_metadata, new_metadata) ==
    \/ old_metadata.last_modified # new_metadata.last_modified
    \/ old_metadata.size # new_metadata.size
    \/ old_metadata.is_dir # new_metadata.is_dir

IsChanged(old_metadata, new_metadata) ==
    \/ old_metadata.last_modified # new_metadata.last_modified
    \/ old_metadata.size # new_metadata.size

RECURSIVE CreatedOrModified(_, _, _)
CreatedOrModified(old, new, ord) ==
    IF ord = <<>> THEN <<>>
    ELSE LET path == Head(ord)
             rest == CreatedOrModified(old, new, Tail(ord))
         IN  IF path \in DOMAIN old
             THEN IF IsChanged(old[path], new[path])
                  THEN <<FileChange("Modified", path)>> \o rest
                  ELSE rest
             ELSE <<FileChange("Created", path)>> \o rest

RECURSIVE Deleted(_, _)
Deleted(new, ord) ==
    IF ord = <<>> THEN <<>>
    ELSE LET path == Head(ord)
             rest == Deleted(new, Tail(ord))
         IN  IF path \notin DOMAIN new
             THEN <<FileChange("Deleted", path)>> \o rest
             ELSE rest

\* The vectors diff can return for the stored snapshot old and the scanned new.
DiffChanges(old, new) ==
    {cm \o dl :
        cm \in {CreatedOrModified(old, new, on) : on \in Orders(DOMAIN new)},
        dl \in {Deleted(new, oo) : oo \in Orders(DOMAIN old)}}

(***************************************************************************)
(* serde_json: FileTracker <-> state file                                  *)
(***************************************************************************)
\* SystemTime serialises as its distance from UNIX_EPOCH; a time before the
\* epoch does not serialise.
SerializableTime(lm) == lm >= 0

\* A time stored in whole seconds.
TimeToJsonSecs(lm) == [secs_since_epoch |-> lm \div NanosPerSec, nanos_since_epoch |-> 0]

TimeToJson(lm) == [secs_since_epoch |-> lm \div NanosPerSec, nanos_since_epoch |-> lm % NanosPerSec]

TimeFromJson(j) == j.secs_since_epoch * NanosPerSec + j.nanos_since_epoch

MetaToJson(m) == [last_modified |-> TimeToJson(m.last_modified), size |-> m.size, is_dir |-> m.is_dir]

MetaFromJson(j) == FileMetadata(TimeFromJson(j.last_modified), j.size, j.is_dir)

Serializable(t) == \A p \in DOMAIN t.files_state : SerializableTime(t.files_state[p].last_modified)

ToJson(t) ==
    [root_target |-> t.root_target,
     files_state |-> [p \in DOMAIN t.files_state |-> MetaToJson(t.files_state[p])]]

FromJson(j) ==
    FileTracker(j.root_target, [p \in DOMAIN j.files_state |-> MetaFromJson(j.files_state[p])])

(***************************************************************************)
(* The state file                                                          *)
(***************************************************************************)
NoFile == [kind |-> "absent"]

EmptyFile == [kind |-> "empty"]

CorruptFile == [kind |-> "corrupt"]

JsonFile(j) == [kind |-> "json", body |-> j]

\* A load that reports every failure as an I/O error.
FileTrackerGetOneError(d) ==
    IF d.kind = "json" THEN Ok(FromJson(d.body)) ELSE Err("IoError")

\* FileTracker::get
FileTrackerGet(d) ==
    IF d.kind = "absent" THEN Err("IoError")
    ELSE IF d.kind = "json" THEN Ok(FromJson(d.body))
    ELSE Err("SerdeJsonError")

\* A status that only looks whether the state file exists.
IsMonitoringActiveExists(d) == d.kind # "absent"

\* is_monitoring_active: the persisted state exists and parses.
IsMonitoringActive(d) == FileTrackerGet(d).ok

\* What the file holds after json is written at offset 0 of a handle opened by
\* File::create.  A file written since this handle truncated it keeps its
\* tail when the new text is shorter.
Written(d, j) ==
    IF d.kind = "empty" \/ d = JsonFile(j) THEN {JsonFile(j)}
    ELSE {JsonFile(j), CorruptFile}

(***************************************************************************)
(* Notifications                                                           *)
(***************************************************************************)
SyncStarted == [type |-> "sync_started"]

SyncError(stage, e) == [type |-> "sync_error", stage |-> stage, err |-> e]

\* impl Display for FileChange
Display(c) == <<c.kind, ": ", c.path>>

Payload(t, chs) ==
    [type |-> "file_diffs", folder |-> t.root_target, changes |-> [i \in 1..Len(chs) |-> Display(chs[i])]]

\* get_only_file_changes: drops the records of directories, keeps the order.
RECURSIVE GetOnlyFileChanges(_, _, _)
GetOnlyFileChanges(chs, old, new) ==
    IF chs = <<>> THEN <<>>
    ELSE LET c == Head(chs)
             m == IF c.kind = "Deleted" THEN old[c.path] ELSE new[c.path]
             rest == GetOnlyFileChanges(Tail(chs), old, new)
         IN  IF m.is_dir THEN rest ELSE <<c>> \o rest

(***************************************************************************)
(* Tasks                                                                   *)
(***************************************************************************)
Task(pcv, trk, chs, fdv) == [pc |-> pcv, tracker |-> trk, changes |-> chs, fd |-> fdv]

One(r) == SetToBag({r})

Alive == BagToSet(tasks)

Spawn(r) == tasks' = tasks (+) One(r)

Become(r, r2) == tasks' = (tasks (-) One(r)) (+) One(r2)

Return(r) == tasks' = tasks (-) One(r)

(***************************************************************************)
(* Initial state: the process has started with no state file, so run()     *)
(* resumed nothing.  events holds the notifications the latest step sent.  *)
(***************************************************************************)
InitTree ==
    [p \in AllPaths |->
        IF p = DirRoot THEN FileMetadata(999999999, 0, TRUE)
        ELSE IF p \in {FileRoot, "/d/a"} THEN FileMetadata(999999999, 10, FALSE)
        ELSE Absent]

Init ==
    /\ fs = InitTree
    /\ fsOps = 0
    /\ disk = NoFile
    /\ tasks = EmptyBag
    /\ events = <<>>
    /\ stopped = FALSE
    /\ quiet = 0

(***************************************************************************)
(* The environment: the monitored tree changes                             *)
(***************************************************************************)
Touch(f, p, lm) == [f EXCEPT ![p] = FileMetadata(lm, f[p].size, f[p].is_dir)]

FsChanged(f) ==
    /\ fsOps < MaxFsOps
    /\ fs' = f
    /\ fsOps' = fsOps + 1
    /\ quiet' = 0
    /\ events' = <<>>
    /\ UNCHANGED <<disk, tasks, stopped>>

\* A new entry appears; its directory's modification time moves with it.
FsCreate(p, m) ==
    /\ fs[p] = Absent
    /\ FsChanged(Touch([fs EXCEPT ![p] = m], Parent(p), m.last_modified))

\* An entry's content or times change.
FsModify(p, m) ==
    /\ fs[p] # Absent
    /\ fs[p] # m
    /\ fs[p].is_dir = m.is_dir
    /\ FsChanged([fs EXCEPT ![p] = m])

\* An entry is removed at time lm.
FsDelete(p, lm) ==
    /\ fs[p] # Absent
    /\ FsChanged(Touch([fs EXCEPT ![p] = Absent], Parent(p), lm))

(***************************************************************************)
(* FileTracker::save, in its two steps: File::create, then serialise and   *)
(* write.                                                                  *)
(***************************************************************************)
Saving(r) == r.pc \in {"new_write", "loop_write"}

\* File::create succeeds: the file exists and is empty.
CreateOk(r, next) ==
    /\ disk' = EmptyFile
    /\ Become(r, [r EXCEPT !.pc = next, !.fd = "linked"])
    /\ events' = <<>>

\* The text is serialised and written through the handle.
WriteOk(r) ==
    /\ Serializable(r.tracker)
    /\ IF r.fd = "linked"
       THEN disk' \in Written(disk, ToJson(r.tracker))
       ELSE disk' = disk

\* serde_json::to_string_pretty or file.write fails.
WriteErr(r, e) ==
    /\ IF Serializable(r.tracker) THEN e = "IoError" ELSE e = "SerdeJsonError"
    /\ disk' = disk

(***************************************************************************)
(* setup (start_monitoring): FileTracker::new, then start_sync_loop        *)
(***************************************************************************)
\* The command spawns its task, which scans the target; a failed scan is
\* reported and the task returns.
Setup(target) ==
    /\ BagCardinality(tasks) < MaxTasks
    /\ LET r == ScanDir(fs, target)
       IN  \/ /\ r.ok
              /\ Spawn(Task("new_create", FileTracker(target, r.val), <<>>, "closed"))
              /\ events' = <<>>
           \/ \E e \in {"IoError", "WalkdirError", "NotADirectory"} :
                 /\ IF r.ok THEN e # "NotADirectory" ELSE e = r.err
                 /\ tasks' = tasks
                 /\ events' = <<SyncError("setup", e)>>
    /\ stopped' = FALSE
    /\ UNCHANGED <<fs, fsOps, disk, quiet>>

SetupFailed(r, e) ==
    /\ Return(r)
    /\ events' = <<SyncError("setup", e)>>

NewCreate(r) ==
    /\ r \in Alive
    /\ r.pc = "new_create"
    /\ \/ CreateOk(r, "new_write")
       \/ /\ SetupFailed(r, "IoError")
          /\ disk' = disk
    /\ UNCHANGED <<fs, fsOps, stopped, quiet>>

\* After a successful save the started notification is emitted and the sync
\* loop is spawned; the setup task returns.
NewWrite(r) ==
    /\ r \in Alive
    /\ r.pc = "new_write"
    /\ \/ /\ WriteOk(r)
          /\ events' = <<SyncStarted>>
          /\ Become(r, Task("load", NoTracker, <<>>, "closed"))
       \/ \E e \in {"IoError", "SerdeJsonError"} :
             /\ WriteErr(r, e)
             /\ SetupFailed(r, e)
    /\ UNCHANGED <<fs, fsOps, stopped, quiet>>

(***************************************************************************)
(* start_sync_loop                                                         *)
(***************************************************************************)
Running(r) == r.pc \in {"tick", "loop_create", "loop_write"}

\* A loop that reports the failed load and tries again.
LoopLoadRetries(r) ==
    /\ r \in Alive
    /\ r.pc = "load"
    /\ LET g == FileTrackerGet(disk)
       IN  IF g.ok
           THEN /\ Become(r, Task("tick", g.val, <<>>, "closed"))
                /\ events' = <<>>
           ELSE /\ events' = <<SyncError("load", g.err)>>
                /\ tasks' = tasks
    /\ UNCHANGED <<fs, fsOps, disk, stopped, quiet>>

\* The loop loads the persisted tracker, or reports and returns.
LoopLoad(r) ==
    /\ r \in Alive
    /\ r.pc = "load"
    /\ LET g == FileTrackerGet(disk)
       IN  IF g.ok
           THEN /\ Become(r, Task("tick", g.val, <<>>, "closed"))
                /\ events' = <<>>
           ELSE /\ events' = <<SyncError("load", g.err)>>
                /\ Return(r)
    /\ UNCHANGED <<fs, fsOps, disk, stopped, quiet>>

\* A failed diff that reports the error and forgets the stored snapshot.
DiffErrDropsSnapshot(r, e) ==
    /\ events' = <<SyncError("diff", e)>>
    /\ Become(r, [r EXCEPT !.tracker.files_state = EmptyState])

\* The scan of diff fails: `?` returns before the stored snapshot is touched,
\* the loop reports the error and waits for the next tick.
DiffErr(r, e) ==
    /\ events' = <<SyncError("diff", e)>>
    /\ tasks' = tasks

\* A diff that stores the scanned snapshot only when it found a change.
DiffedIfChanged(r, new, chs) ==
    IF chs = <<>> THEN r
    ELSE [r EXCEPT !.tracker.files_state = new, !.changes = chs, !.pc = "loop_create"]

\* What the task is once its diff has returned chs for the scanned snapshot.
Diffed(r, new, chs) ==
    [r EXCEPT !.tracker.files_state = new,
              !.changes = chs,
              !.pc = IF chs = <<>> THEN "tick" ELSE "loop_create"]

\* A diff that returns the changes and keeps the stored snapshot.
DiffOkKeepsOld(r, new, chs) ==
    /\ Become(r, [r EXCEPT !.changes = chs, !.pc = IF chs = <<>> THEN "tick" ELSE "loop_create"])
    /\ IF chs = <<>>
       THEN events' = <<>>
       ELSE events' = <<Payload(r.tracker, GetOnlyFileChanges(chs, r.tracker.files_state, new))>>

\* A cycle that notifies the changes and does not save.
DiffOkNoSave(r, new, chs) ==
    /\ Become(r, [Diffed(r, new, chs) EXCEPT !.pc = "tick", !.changes = <<>>])
    /\ IF chs = <<>>
       THEN events' = <<>>
       ELSE events' = <<Payload(r.tracker, GetOnlyFileChanges(chs, r.tracker.files_state, new))>>

\* A cycle that goes on to save without notifying the changes.
DiffOkSilent(r, new, chs) ==
    /\ Become(r, Diffed(r, new, chs))
    /\ events' = <<>>

\* diff replaces the stored snapshot; a non-empty change set is notified and
\* the loop goes on to save.
DiffOk(r, new, chs) ==
    /\ Become(r, Diffed(r, new, chs))
    /\ IF chs = <<>>
       THEN events' = <<>>
       ELSE events' = <<Payload(r.tracker, GetOnlyFileChanges(chs, r.tracker.files_state, new))>>

\* One tick: scan, diff, and on a non-empty diff notify and go on to save.
LoopTick(r) ==
    /\ r \in Alive
    /\ r.pc = "tick"
    /\ UNCHANGED <<fs, fsOps, disk, stopped>>
    /\ LET s == ScanDir(fs, r.tracker.root_target)
       IN  \/ \E e \in ScanFaults \cup {"NotADirectory"} :
                 /\ IF s.ok THEN e \in ScanFaults ELSE e = s.err
                 /\ DiffErr(r, e)
           \/ /\ s.ok
              /\ \E chs \in DiffChanges(r.tracker.files_state, s.val) : DiffOk(r, s.val, chs)

\* The loop once its save has returned.
Saved(r) == [r EXCEPT !.pc = "tick", !.changes = <<>>, !.fd = "closed"]

\* A loop that reports the failed save and returns.
SaveFailedExits(r, e) ==
    /\ events' = <<SyncError("save", e)>>
    /\ Return(r)

SaveFailed(r, e) ==
    /\ events' = <<SyncError("save", e)>>
    /\ Become(r, Saved(r))

LoopCreate(r) ==
    /\ r \in Alive
    /\ r.pc = "loop_create"
    /\ \/ CreateOk(r, "loop_write")
       \/ /\ SaveFailed(r, "IoError")
          /\ disk' = disk
    /\ UNCHANGED <<fs, fsOps, stopped, quiet>>

LoopWrite(r) ==
    /\ r \in Alive
    /\ r.pc = "loop_write"
    /\ \/ /\ WriteOk(r)
          /\ Become(r, Saved(r))
          /\ events' = <<>>
       \/ \E e \in {"IoError", "SerdeJsonError"} :
             /\ WriteErr(r, e)
             /\ SaveFailed(r, e)
    /\ UNCHANGED <<fs, fsOps, stopped, quiet>>

\* The ways one step of the loop's task can go.
LoopStep(r) == (LoopTick(r) /\ UNCHANGED quiet) \/ LoopCreate(r) \/ LoopWrite(r)

(***************************************************************************)
(* The other commands of lib.rs                                            *)
(***************************************************************************)
Copies(B, r) == IF r \in DOMAIN B THEN B[r] ELSE 0

\* The tasks once the state file is removed: a handle that was open on it is
\* open on the removed file.
Unlinked(B) ==
    LET unlink(r) == IF r.fd = "linked" THEN [r EXCEPT !.fd = "unlinked"] ELSE r
    IN  [r \in {unlink(x) : x \in DOMAIN B} |->
            IF r.fd = "unlinked" THEN Copies(B, r) + Copies(B, [r EXCEPT !.fd = "linked"])
            ELSE B[r]]

\* stop_monitoring: the state file is removed.  (With no state file the
\* command fails and changes nothing.)
StopMonitoring ==
    /\ disk # NoFile
    /\ disk' = NoFile
    /\ tasks' = Unlinked(tasks)
    /\ stopped' = ~\E r \in Alive : r.pc \in {"new_create", "new_write"}
    /\ events' = <<>>
    /\ UNCHANGED <<fs, fsOps, quiet>>

\* get_save_state reads the state file and writes nothing: what it returns in
\* the current state.
GetSaveState == FileTrackerGet(disk)

\* get_monitoring_status, likewise.
GetMonitoringStatus == IsMonitoringActive(disk)

\* The process ends and is started again: every task is gone, and run()
\* resumes the loop when monitoring is active.
Restart ==
    /\ tasks # EmptyBag
    /\ tasks' = IF IsMonitoringActive(disk) THEN One(Task("load", NoTracker, <<>>, "closed")) ELSE EmptyBag
    /\ events' = <<>>
    /\ UNCHANGED <<fs, fsOps, disk, stopped, quiet>>

Next ==
    \/ \E p \in Children, m \in Metas : FsCreate(p, m)
    \/ \E p \in Children, m \in Metas : FsModify(p, m)
    \/ \E p \in Children, lm \in Times : FsDelete(p, lm)
    \/ \E target \in Targets : Setup(target)
    \/ \E r \in Alive : NewCreate(r)
    \/ \E r \in Alive : NewWrite(r)
    \/ \E r \in Alive : LoopLoad(r)
    \/ \E r \in Alive : LoopStep(r)
    \/ StopMonitoring
    \/ Restart

Spec == Init /\ [][Next]_vars

(***************************************************************************)
(* The diff and the state store on arbitrary snapshots: one loop whose     *)
(* tracker holds any snapshot, over any tree, the state file removed by    *)
(* stop_monitoring.  quiet counts the diffs that have returned since the   *)
(* tree last changed.                                                      *)
(***************************************************************************)
Entries == {Absent} \cup AllMetas

\* The second entry is there or not.
Others == {Absent, FileMetadata(999999999, 10, FALSE)}

\* The trees in which the root is no directory any more: removed, or replaced
\* by a regular file.
RootGone ==
    {[p \in AllPaths |->
         IF p = DirRoot THEN root
         ELSE IF p = FileRoot THEN InitTree[FileRoot]
         ELSE Absent] :
        root \in {Absent, FileMetadata(999999999, 10, FALSE)}}

Trees ==
    {[p \in AllPaths |->
         IF p = DirRoot THEN FileMetadata(lm, 0, TRUE)
         ELSE IF p = FileRoot THEN InitTree[FileRoot]
         ELSE IF p = "/d/a" THEN a ELSE b] :
        lm \in {999999999, BeforeEpoch}, a \in Entries, b \in Others} \cup RootGone

Snapshots ==
    {[p \in {q \in {DirRoot} \cup Children : f[q] # Absent} |-> f[p]] :
        f \in {[p \in {DirRoot} \cup Children |->
                   IF p = DirRoot THEN r ELSE IF p = "/d/a" THEN a ELSE b] :
               r \in {FileMetadata(999999999, 0, TRUE), FileMetadata(1000000001, 0, TRUE)},
               a \in Entries, b \in Others}}

InitDiff ==
    /\ fs \in Trees
    /\ fsOps = 0
    /\ \E old \in Snapshots : tasks = One(Task("tick", FileTracker(DirRoot, old), <<>>, "closed"))
    /\ disk = NoFile
    /\ events = <<>>
    /\ stopped = TRUE
    /\ quiet = 0

IsError(evs) == evs # <<>> /\ evs[1].type = "sync_error"

DiffTick(r) ==
    /\ LoopTick(r)
    /\ quiet' = IF IsError(events') THEN quiet ELSE IF quiet < MaxQuiet THEN quiet + 1 ELSE quiet

NextDiff ==
    \/ \E r \in Alive : DiffTick(r)
    \/ \E r \in Alive : LoopCreate(r)
    \/ \E r \in Alive : LoopWrite(r)

SpecDiff == InitDiff /\ [][NextDiff]_vars

(***************************************************************************)
(* A session in step with the tree: one loop whose tracker was scanned     *)
(* from the tree as it is, the state file holding that tracker.  The tree  *)
(* then changes and the loop ticks; the ticks keep coming (tokio interval) *)
(* and a step that can go through without a fault eventually does.         *)
(***************************************************************************)
SessionTrees == {t \in Trees : t[DirRoot] = FileMetadata(999999999, 0, TRUE)}

Scanned(f) == FileTracker(DirRoot, ScanDir(f, DirRoot).val)

InitSession ==
    /\ fs \in SessionTrees
    /\ fsOps = 0
    /\ tasks = One(Task("tick", Scanned(fs), <<>>, "closed"))
    /\ disk = JsonFile(ToJson(Scanned(fs)))
    /\ events = <<>>
    /\ stopped = FALSE
    /\ quiet = 0

NextSession ==
    \/ \E p \in Children, m \in Metas : FsCreate(p, m)
    \/ \E p \in Children, m \in Metas : FsModify(p, m)
    \/ \E p \in Children, lm \in Times : FsDelete(p, lm)
    \/ \E r \in Alive : LoopStep(r)

SpecSession ==
    /\ InitSession
    /\ [][NextSession]_vars
    /\ WF_vars(\E r \in Alive : LoopStep(r) /\ ~IsError(events'))

(***************************************************************************)
(* A session with restarts: the session above, in which the process may    *)
(* also end and start again at any step, run() resuming the loop from the  *)
(* state file.                                                             *)
(***************************************************************************)
NextResume ==
    \/ NextSession
    \/ \E r \in Alive : LoopLoad(r)
    \/ Restart

SpecResume == InitSession /\ [][NextResume]_vars

(***************************************************************************)
(* A loop at work: one loop whose tracker and state file hold an earlier   *)
(* scan of the tree, in which "/d/b" may have been present and the root's  *)
(* time another; in the tree as it is now "/d/b" is absent and "/d/a" is   *)
(* as it was scanned.  The tree changes, the loop ticks and                *)
(* stop_monitoring may be called.  Ticks keep coming, a scan that can      *)
(* succeed eventually does, and a save that was started returns.           *)
(***************************************************************************)
WatchedPath == "/d/b"

InitWatch ==
    /\ fs \in {t \in SessionTrees : t[WatchedPath] = Absent}
    /\ fsOps = 0
    /\ \E old \in {sn \in Snapshots :
                        IF fs["/d/a"] = Absent THEN "/d/a" \notin DOMAIN sn
                        ELSE "/d/a" \in DOMAIN sn /\ sn["/d/a"] = fs["/d/a"]} :
          /\ tasks = One(Task("tick", FileTracker(DirRoot, old), <<>>, "closed"))
          /\ disk = JsonFile(ToJson(FileTracker(DirRoot, old)))
    /\ events = <<>>
    /\ stopped = FALSE
    /\ quiet = 0

NextWatch ==
    \/ NextSession
    \/ StopMonitoring

SpecWatch ==
    /\ InitWatch
    /\ [][NextWatch]_vars
    /\ WF_vars(\E r \in Alive : LoopStep(r) /\ (r.pc = "tick" => ~IsError(events')))

(***************************************************************************)
(* A root that contains the state file.  Nothing checks that the state     *)
(* file lies outside the monitored root: here it is the entry "/d/a" of    *)
(* the root "/d", so that a save changes the tree the loop scans.  setup   *)
(* has scanned the tree and then saved; nothing else changes the tree.     *)
(* Times has two values and diff compares times for inequality only: the   *)
(* time a save puts on the file is the one the file did not have.          *)
(***************************************************************************)
StateFilePath == "/d/a"

Later(lm) == CHOOSE u \in Times : u # lm

\* File::create on the state file at time lm: the entry is there, empty; when
\* it is new, its directory's time moves.
StateFileCreated(f, lm) ==
    LET g == [f EXCEPT ![StateFilePath] = FileMetadata(lm, 0, FALSE)]
    IN  IF f[StateFilePath] = Absent THEN Touch(g, Parent(StateFilePath), lm) ELSE g

\* write on the state file: the entry has the text's size.
StateFileWritten(f) == [f EXCEPT ![StateFilePath].size = 10]

\* The time of the save that follows the scan of f.
SaveTime(f) ==
    IF f[StateFilePath] = Absent THEN Later(f[DirRoot].last_modified)
    ELSE Later(f[StateFilePath].last_modified)

\* The trees setup can have scanned: the state file absent or left by an
\* earlier session.
SelfTrees ==
    {t \in SessionTrees :
        t[StateFilePath] \in {Absent, FileMetadata(999999999, 10, FALSE), FileMetadata(1000000001, 10, FALSE)}}

InitSelf ==
    \E f \in SelfTrees :
        /\ fs = StateFileWritten(StateFileCreated(f, SaveTime(f)))
        /\ fsOps = 0
        /\ tasks = One(Task("tick", Scanned(f), <<>>, "closed"))
        /\ disk = JsonFile(ToJson(Scanned(f)))
        /\ events = <<>>
        /\ stopped = FALSE
        /\ quiet = 0

SelfTick(r) == LoopTick(r) /\ UNCHANGED quiet

SelfCreate(r) ==
    /\ r \in Alive
    /\ r.pc = "loop_create"
    /\ \/ /\ CreateOk(r, "loop_write")
          /\ fs' = StateFileCreated(fs, SaveTime(fs))
       \/ /\ SaveFailed(r, "IoError")
          /\ disk' = disk
          /\ fs' = fs
    /\ UNCHANGED <<fsOps, stopped, quiet>>

SelfWrite(r) ==
    /\ r \in Alive
    /\ r.pc = "loop_write"
    /\ \/ /\ WriteOk(r)
          /\ Become(r, Saved(r))
          /\ events' = <<>>
          /\ fs' = StateFileWritten(fs)
       \/ \E e \in {"IoError", "SerdeJsonError"} :
             /\ WriteErr(r, e)
             /\ SaveFailed(r, e)
             /\ fs' = fs
    /\ UNCHANGED <<fsOps, stopped, quiet>>

NextSelf ==
    \/ \E r \in Alive : SelfTick(r)
    \/ \E r \in Alive : SelfCreate(r)
    \/ \E r \in Alive : SelfWrite(r)

SpecSelf ==
    /\ InitSelf
    /\ [][NextSelf]_vars
    /\ WF_vars(\E r \in Alive : SelfTick(r) /\ ~IsError(events'))
    /\ WF_vars(\E r \in Alive : SelfCreate(r) \/ SelfWrite(r))

(***************************************************************************)
(* Properties                                                              *)
(***************************************************************************)
Count(chs, c) == Cardinality({i \in 1..Len(chs) : chs[i] = c})

Expected(cond) == IF cond THEN 1 ELSE 0

Classified(old, new, chs) ==
    /\ \A p \in AllPaths :
          /\ Count(chs, FileChange("Created", p)) = Expected(p \in DOMAIN new /\ p \notin DOMAIN old)
          /\ Count(chs, FileChange("Modified", p)) =
                Expected(/\ p \in DOMAIN new \cap DOMAIN old
                         /\ <<old[p].last_modified, old[p].size>> # <<new[p].last_modified, new[p].size>>)
          /\ Count(chs, FileChange("Deleted", p)) = Expected(p \in DOMAIN old /\ p \notin DOMAIN new)
    /\ \A i \in 1..Len(chs) : chs[i].path \in AllPaths /\ chs[i].kind \in {"Created", "Modified", "Deleted"}

\* C1: a diff that returns gives exactly one Created record for each path only
\* in the scanned snapshot, one Modified record for each path in both whose
\* last-modified time or size differs, one Deleted record for each path only in
\* the stored snapshot, and nothing else; is_dir is not compared.
DiffClassifies ==
    [][\A r \in Alive : \A r2 \in BagToSet(tasks') :
          (LoopTick(r) /\ ~IsError(events') /\ Become(r, r2)) =>
              Classified(r.tracker.files_state, ScanDir(fs, r.tracker.root_target).val, r2.changes)]_vars

\* A diff has returned a Created, a Modified and a Deleted record at once.
DiffAllKinds ==
    \E r \in Alive :
        {r.changes[i].kind : i \in 1..Len(r.changes)} = {"Created", "Modified", "Deleted"}

\* What a record carries besides its kind: FileChange::Created(PathBuf),
\* Modified(PathBuf) and Deleted(PathBuf) carry the path and no metadata.
NoMetadata == [unknown |-> TRUE]

Carried(c) == IF "metadata" \in DOMAIN c THEN c.metadata ELSE NoMetadata

\* Inserting each Created path, updating each Modified path and removing each
\* Deleted path, with what the records carry.
RECURSIVE ApplyChanges(_, _)
ApplyChanges(old, chs) ==
    IF chs = <<>> THEN old
    ELSE LET c == Head(chs)
             applied ==
                 IF c.kind = "Deleted"
                 THEN [p \in DOMAIN old \ {c.path} |-> old[p]]
                 ELSE [p \in DOMAIN old \cup {c.path} |-> IF p = c.path THEN Carried(c) ELSE old[p]]
         IN  ApplyChanges(applied, Tail(chs))

\* C11 (as claimed): the records a diff returns, applied to the stored
\* snapshot, give the scanned snapshot, each path with its metadata.
DiffReconstructs ==
    [][\A r \in Alive : \A r2 \in BagToSet(tasks') :
          (LoopTick(r) /\ ~IsError(events') /\ Become(r, r2)) =>
              ApplyChanges(r.tracker.files_state, r2.changes) = r2.tracker.files_state]_vars

\* The loop has notified the changes of its last diff and its save has not
\* returned.
InSaveWindow(r) == r.pc \in {"loop_create", "loop_write"}

\* The records of created and modified files among those the loop notified.
Delivered(r) ==
    {c \in {r.changes[i] : i \in 1..Len(r.changes)} :
        c.kind # "Deleted" /\ ~r.tracker.files_state[c.path].is_dir}

\* C12 (as claimed): the tree having changed once since the process started,
\* no two loops have notified a record of the same kind for the same path.
NoRecordTwice ==
    fsOps <= 1 =>
        \A r1, r2 \in Alive :
            (InSaveWindow(r1) /\ InSaveWindow(r2) /\ (r1 # r2 \/ tasks[r1] >= 2)) =>
                Delivered(r1) \cap Delivered(r2) = {}

\* The event is one change event for the loop's root whose descriptions are
\* "<Kind>: <path>" of records of chs.
IsChangeEvent(evs, root, chs) ==
    /\ Len(evs) = 1
    /\ evs[1].type = "file_diffs"
    /\ evs[1].folder = root
    /\ \A i \in 1..Len(evs[1].changes) :
          \E j \in 1..Len(chs) : evs[1].changes[i] = <<chs[j].kind, ": ", chs[j].path>>

\* C13: a tick of a running loop scans and diffs; a scan that fails gives one
\* error event, no change event, and the loop waits for its next tick; a
\* non-empty diff gives exactly one change event (the root and descriptions
\* "<Kind>: <path>" of its records) and the loop goes on to save; an empty diff
\* gives no event, no save, and the state file is left alone.
CycleShape ==
    [][\A r \in Alive :
          LoopTick(r) =>
              /\ disk' = disk
              /\ ~ScanDir(fs, r.tracker.root_target).ok =>
                    events' = <<SyncError("diff", ScanDir(fs, r.tracker.root_target).err)>>
              /\ IF IsError(events')
                 THEN Len(events') = 1 /\ events'[1].stage = "diff" /\ tasks' = tasks
                 ELSE \E r2 \in BagToSet(tasks') :
                         /\ Become(r, r2)
                         /\ IF r2.changes = <<>>
                            THEN events' = <<>> /\ r2.pc = "tick"
                            ELSE /\ IsChangeEvent(events', r.tracker.root_target, r2.changes)
                                 /\ r2.pc = "loop_create"]_vars

\* A cycle has notified its changes and is about to save.
ChangeEventThenSave ==
    /\ IsChangeEvent(events, DirRoot, <<FileChange("Created", "/d/a")>>)
    /\ events[1].changes # <<>>
    /\ \E r \in Alive : r.pc = "loop_create" /\ r.changes # <<>>

LoadErrorKinds ==
    /\ [](/\ disk = NoFile => GetSaveState = Err("IoError")
          /\ disk.kind \in {"empty", "corrupt"} => GetSaveState = Err("SerdeJsonError")
          /\ GetSaveState.ok => (disk.kind = "json" /\ ToJson(GetSaveState.val) = disk.body))
    /\ [][\A r \in Alive :
            LoopLoad(r) =>
                /\ disk' = disk
                /\ ~GetSaveState.ok => events' = <<SyncError("load", GetSaveState.err)>>]_vars

\* A loop's load has met a state file that does not parse.
LoadSawUnparsableFile ==
    /\ events = <<SyncError("load", "SerdeJsonError")>>
    /\ disk.kind \in {"empty", "corrupt"}

\* C16 (as claimed): the tracker holding the scan of the empty root, and the
\* 10-byte file "/d/a" then created under it, the next diff returns
\* Created("/d/a") and no other record.
CreatedOnlyInEmptyRoot ==
    [][\A r \in Alive : \A r2 \in BagToSet(tasks') :
          (/\ LoopTick(r) /\ ~IsError(events') /\ Become(r, r2)
           /\ DOMAIN r.tracker.files_state = {DirRoot}
           /\ fsOps = 1
           /\ fs["/d/a"] # Absent /\ ~fs["/d/a"].is_dir /\ fs["/d/a"].size = 10
           /\ fs["/d/b"] = Absent) =>
              r2.changes = <<FileChange("Created", "/d/a")>>]_vars

\* C17: after a diff that returns, the tracker holds its root and exactly the
\* scanned snapshot, every path with its time, size and is_dir, whether or not
\* a change was found.
SnapshotReplaced ==
    [][\A r \in Alive : \A r2 \in BagToSet(tasks') :
          (LoopTick(r) /\ ~IsError(events') /\ Become(r, r2)) =>
              r2.tracker = FileTracker(r.tracker.root_target, ScanDir(fs, r.tracker.root_target).val)]_vars

\* The first diff has found no change and the tracker holds the scan, in
\* which "/d/a" is a directory.
EmptyDiffStoredScan ==
    /\ quiet = 1
    /\ events = <<>>
    /\ disk = NoFile
    /\ \E r \in Alive :
          /\ r.pc = "tick"
          /\ r.changes = <<>>
          /\ r.tracker.files_state = ScanDir(fs, DirRoot).val
          /\ "/d/a" \in DOMAIN r.tracker.files_state
          /\ r.tracker.files_state["/d/a"].is_dir

\* The loop waits for its next tick after a save that failed on I/O.
SaveJustFailed ==
    /\ events = <<SyncError("save", "IoError")>>
    /\ \E r \in Alive : r.pc = "tick" /\ Serializable(r.tracker)

\* The state file holds the snapshot of every running loop.
Persisted == \A r \in Alive : GetSaveState = Ok(r.tracker)

\* The latest scan of the loop failed.
ScanJustFailed ==
    events # <<>> /\ events[1] \in {SyncError("diff", e) : e \in ScanFaults \cup {"NotADirectory"}}

\* C18 (as claimed): after a failed save the loop saves again on a later tick
\* without waiting for a further change of the tree: from a failed save, the
\* state file comes to hold the loop's snapshot, unless a later scan fails.
FailedSaveRetried == SaveJustFailed ~> (Persisted \/ ScanJustFailed)

\* C19: a tick whose scan fails reports one sync_error of the diff stage with
\* the scan's error (NotADirectory or IoError from the root's metadata, or a
\* walk, I/O or join fault of the walk) and leaves every tracker, with its
\* root and stored snapshot, and the state file as they were.
FailedScanKeepsSnapshot ==
    [][\A r \in Alive :
          (LoopTick(r) /\ IsError(events')) =>
              /\ tasks' = tasks
              /\ disk' = disk
              /\ LET s == ScanDir(fs, r.tracker.root_target)
                 IN  \E e \in ScanFaults \cup {"NotADirectory"} :
                        /\ events' = <<SyncError("diff", e)>>
                        /\ s.ok => e \in ScanFaults
                        /\ ~s.ok => e = s.err]_vars

\* A walk has failed while the tree differs from the stored snapshot: the
\* loop waits for its next tick with the changes still to be reported.
WalkFailedChangesPending ==
    /\ events = <<SyncError("diff", "WalkdirError")>>
    /\ \E r \in Alive :
          /\ r.pc = "tick"
          /\ ScanDir(fs, r.tracker.root_target).ok
          /\ <<>> \notin DiffChanges(r.tracker.files_state, ScanDir(fs, r.tracker.root_target).val)

\* C20: the change event comes before the save.  The step in which a loop
\* finds changes emits their file_diffs event and leaves the state file as it
\* was, and the state file is written only by a loop that is saving the
\* changes it has already notified.
EmittedBeforeSaved ==
    [][/\ disk' # disk => \E r \in Alive : r.pc \in {"loop_create", "loop_write"} /\ r.changes # <<>>
       /\ \A r \in Alive : \A r2 \in BagToSet(tasks') :
             (r.pc = "tick" /\ r2.pc = "loop_create" /\ Become(r, r2) /\ LoopTick(r)) =>
                 /\ disk' = disk
                 /\ r2.changes # <<>>
                 /\ Len(events') = 1
                 /\ events'[1].type = "file_diffs"
                 /\ events'[1].folder = r.tracker.root_target
                 /\ \A i \in DOMAIN events'[1].changes :
                       \E j \in DOMAIN r2.changes : events'[1].changes[i] = Display(r2.changes[j])]_vars

\* A save is under way, the state file truncated and not yet written, one
\* step after the changes being saved were notified.
SaveUnderWayAfterEvent ==
    /\ disk = EmptyFile
    /\ events = <<>>
    /\ fsOps > 0
    /\ \E r \in Alive : r.pc = "loop_write" /\ r.fd = "linked" /\ r.changes # <<>>

\* C21 (as claimed): every file_diffs event carries at least one change
\* description.
ChangeEventNotEmpty ==
    \A i \in DOMAIN events : events[i].type = "file_diffs" => events[i].changes # <<>>

\* The tree is as the loop r last scanned it.
TreeAsScanned(r) ==
    LET s == ScanDir(fs, r.tracker.root_target)
    IN  s.ok /\ r.tracker.files_state = s.val

\* The change lists the first diff of a loop resumed from the state file d
\* can return over the tree as it is.
ResumedDiff(d) ==
    LET g == FileTrackerGet(d)
    IN  DiffChanges(g.val.files_state, ScanDir(fs, g.val.root_target).val)

\* C22 (as claimed): resumption is idempotent.  When the process is
\* restarted while the tree is as the running loop last scanned it, and the
\* loop is resumed from a state file that loads, the first diff of the
\* resumed loop over that tree is empty.
ResumptionIdempotent ==
    [][(/\ Restart
        /\ \E r \in Alive : Running(r) /\ TreeAsScanned(r)
        /\ tasks' # EmptyBag
        /\ FileTrackerGet(disk).ok) => ResumedDiff(disk) = {<<>>}]_vars

\* The latest step emitted a change event with the description "Created: p".
CreatedReported(p) ==
    \E i \in DOMAIN events :
        /\ events[i].type = "file_diffs"
        /\ \E j \in DOMAIN events[i].changes :
              events[i].changes[j] = Display(FileChange("Created", p))

\* The watched path holds a regular file (created since the loop started, as
\* the path was absent then) and a loop is running.
FileCreatedWhileRunning ==
    /\ fs[WatchedPath] # Absent
    /\ ~fs[WatchedPath].is_dir
    /\ \E r \in Alive : Running(r)

\* C23 (as claimed): a file created while the loop is running and not removed
\* afterwards is eventually reported as Created: if from some point on the
\* watched path holds a file for good, a change event has "Created" for it.
CreatedFileReported ==
    <>[]FileCreatedWhileRunning => <>CreatedReported(WatchedPath)

\* C23 (amended): a file created at a path that the loop's stored snapshot
\* does not hold, and not removed afterwards, is eventually reported as
\* Created, whatever saves fail and whether or not stop_monitoring is called;
\* the step that reports it puts the path into the stored snapshot, and a path
\* leaves the stored snapshot only when a scan finds it absent, so it is
\* reported as Created once.
UnknownFileReportedOnce ==
    /\ (FileCreatedWhileRunning /\ \E r \in Alive : WatchedPath \notin DOMAIN r.tracker.files_state)
           ~> (CreatedReported(WatchedPath) \/ fs[WatchedPath] = Absent)
    /\ [][\A r \in Alive : \A r2 \in BagToSet(tasks') :
             /\ CreatedReported(WatchedPath)' =>
                    /\ WatchedPath \notin DOMAIN r.tracker.files_state
                    /\ WatchedPath \in DOMAIN r2.tracker.files_state
             /\ (/\ WatchedPath \in DOMAIN r.tracker.files_state
                 /\ WatchedPath \notin DOMAIN r2.tracker.files_state) => fs[WatchedPath] = Absent]_vars

\* The file has just been reported as Created by a loop whose state file
\* stop_monitoring has removed.
CreatedReportedAfterStop ==
    /\ CreatedReported(WatchedPath)
    /\ disk = NoFile
    /\ \E r \in Alive : r.pc = "loop_create" /\ WatchedPath \in DOMAIN r.tracker.files_state

\* The loop waits for its tick and its latest step emitted no change event.
Quiet ==
    /\ \A r \in Alive : r.pc = "tick"
    /\ \A i \in DOMAIN events : events[i].type # "file_diffs"

\* C24 (as claimed): with nothing but the program changing the tree, the loop
\* quiesces: from some tick on it emits no change event and no longer saves,
\* also when the root contains the state file.
LoopQuiesces == <>[]Quiet

\* C2 (as claimed): a running loop that is waiting for its tick, no other task
\* being alive and the state file being there and whole, holds the snapshot
\* the state file holds.
WaitingLoopMatchesStateFile ==
    \A r \in Alive :
        (r.pc = "tick" /\ GetSaveState.ok /\ BagCardinality(tasks) = 1) =>
            GetSaveState = Ok(r.tracker)

\* C3 (as claimed): once stop_monitoring has succeeded, and until setup is
\* invoked again, get_status stays false (so a restart resumes nothing).
StoppedStaysStopped == stopped => ~GetMonitoringStatus

Loops(B) == [r \in {x \in DOMAIN B : Running(x)} |-> B[r]]

\* C4 (as claimed): at no time are two sync loops running.
AtMostOneLoop == BagCardinality(Loops(tasks)) <= 1

\* C5 (as claimed): while a save has the state file open, a load returns a
\* complete tracker.
LoadDuringSaveIsComplete == (\E r \in Alive : Saving(r) /\ r.fd = "linked") => GetSaveState.ok

\* C6: a step of a running loop (which leaves the other tasks as they are)
\* leaves every running loop running and emits
\* at most one event; a failed scan or a failed save is reported as one error
\* event, after which the loop waits for its next tick with its tracker as it
\* was; a save that does not get its file, or does not fill it, is reported.
LoopSurvivesFailure ==
    [][\A r \in Alive :
          (Running(r) /\ (tasks (-) One(r)) \sqsubseteq tasks' /\ LoopStep(r)) =>
              /\ BagCardinality(Loops(tasks')) = BagCardinality(Loops(tasks))
              /\ Len(events') <= 1
              /\ IsError(events') =>
                    /\ Become(r, Saved(r))
                    /\ events'[1].stage \in {"diff", "save"}
              /\ (r.pc = "loop_create" /\ ~Become(r, [r EXCEPT !.pc = "loop_write", !.fd = "linked"])) =>
                    IsError(events')
              /\ (r.pc = "loop_write" /\ r.fd = "linked" /\ disk = EmptyFile /\ disk' = disk) =>
                    IsError(events')]_vars

\* A loop is waiting for its tick right after its save failed.
SaveFailureReported ==
    /\ events = <<SyncError("save", "IoError")>>
    /\ \E r \in Alive : r.pc = "tick"

NotDir(f, target) == f[target] = Absent \/ ~f[target].is_dir

\* C7: a setup whose scan fails (the target is no directory, or the walk
\* fails) leaves the state file as it was, starts no loop, and emits one error
\* notification and no started notification.
SetupScanFailure ==
    [][\A target \in Targets :
          (Setup(target) /\ (NotDir(fs, target) \/ tasks' = tasks)) =>
              /\ disk' = disk
              /\ tasks' = tasks
              /\ Len(events') = 1
              /\ IsError(events')
              /\ events'[1].stage = "setup"
              /\ NotDir(fs, target) => events'[1].err \in {"NotADirectory", "IoError"}]_vars

\* setup on the regular file has failed with no state file and no task left.
SetupOnFileFailed ==
    /\ events = <<SyncError("setup", "NotADirectory")>>
    /\ disk = NoFile
    /\ tasks = EmptyBag

\* C8: a loop that cannot load the state file emits one error event and
\* returns: it touches neither the state file nor another task, and does not
\* load again.
LoadFailureExits ==
    [][\A r \in Alive :
          (LoopLoad(r) /\ disk.kind # "json") =>
              /\ Return(r)
              /\ events' = <<SyncError("load", IF disk = NoFile THEN "IoError" ELSE "SerdeJsonError")>>
              /\ UNCHANGED <<disk, fs>>]_vars

\* A started loop found no state file and has returned.
LoadFailed ==
    /\ events = <<SyncError("load", "IoError")>>
    /\ tasks = EmptyBag

\* C9: a save that succeeds on a file no other save is writing leaves a state
\* file from which get returns the saved tracker: the root path, the paths,
\* and each path's last-modified time, size and is_dir.
SaveThenGetRoundTrip ==
    [][\A r \in Alive :
          (/\ NewWrite(r) \/ LoopWrite(r)
           /\ r.fd = "linked"
           /\ disk = EmptyFile
           /\ ~IsError(events')) =>
              FileTrackerGet(disk') = Ok(r.tracker)]_vars

\* A loop has saved a tracker of files and directories, and get returns it.
SavedTrackerLoads ==
    \E r \in Alive :
        /\ r.pc = "tick"
        /\ GetSaveState = Ok(r.tracker)
        /\ \E p, q \in DOMAIN r.tracker.files_state :
              r.tracker.files_state[p].is_dir /\ ~r.tracker.files_state[q].is_dir

\* C10: with the tree unchanged since a diff of the tracker returned, every
\* further diff returns no change and leaves the loop waiting.
QuietDiffIsEmpty ==
    [][\A r \in Alive :
          (LoopTick(r) /\ quiet >= 1 /\ ~IsError(events')) =>
              /\ tasks' = tasks
              /\ r.changes = <<>>
              /\ events' = <<>>]_vars

\* Two diffs in a row have returned after the one that scanned the tree.
TwoQuietDiffs == quiet >= 3 /\ \E r \in Alive : r.pc = "tick" /\ r.changes = <<>>

====
